---- MODULE Spec2Model ----
(***************************************************************************)
(* crypto-daily-processor: the two-stage pipeline of                       *)
(* src/bin/crypto-daily-processor.rs.                                      *)
(*                                                                         *)
(* Stage 1 (split): one pool job per input file runs split_file, sharing   *)
(* the dedup set `visited` and the symbol router `split_files`.            *)
(* Stage 2 (sort): the driver admits one pool job per bucket file under    *)
(* the atomic counter `available_memory`; each job runs sort_file.         *)
(***************************************************************************)
EXTENDS Integers, Sequences, FiniteSets, TLC

(* ------------------------------ bounds -------------------------------- *)
NumFiles == 2     \* input files matched by the catalog
MaxLines == 2     \* lines of the largest input file
NumThreads == 2   \* threads of the pool (num_cpus::get())
MaxJson == 3      \* payloads are the strings numbered 0..MaxJson
HashRange == 3    \* number of distinct hash codes (2^64 in the program)
Day == 1          \* the day D of the run, in days since the epoch
MaxBudget == 8    \* available memory at stage-2 start: 4 x 1..MaxBudget
MaxHundreds == 2  \* a long input file has up to this many hundreds of lines
MaxBad == 1       \* malformed lines in the prefix read of a long input file
MaxStale == 2     \* lines of a bucket file found in the output directory

(* ------------------------- program constants --------------------------- *)
MsPerSec == 1000
SecPerDay == 24 * 3600
MemFactor == 5
ErrPercent == 1
PixzPercent == 90

None == "none"
Symbols == {"s1", "s2"}
Kinds == {"raw", "parsed"}
Files == 1..NumFiles
Jsons == 0..MaxJson

BlockedMarkets == {"QuantoFuture", "QuantoSwap", "Move", "BVOL"}
Markets == {"Spot", "BVOL"}
\* An argv[3] that MarketType::from_str rejects (lines 661-665).
BadArg == "?"
MsgTypes == {"Trade", "L2Event"}

(* ------------------------------ time ----------------------------------- *)
DayStartMs == Day * SecPerDay * MsPerSec
DayEndMs == DayStartMs + SecPerDay * MsPerSec - 1
NextDayMs == DayEndMs + 1

\* get_day: the UTC date of a unix timestamp in seconds, as a day number.
get_day(unix_timestamp) == unix_timestamp \div SecPerDay

\* Mutant of is_blocked_market: no market type is blocked.
is_blocked_market_None(market_type) == FALSE

is_blocked_market(market_type) == market_type \in BlockedMarkets

(* ------------------ external collaborators (black boxes) --------------- *)
\* DefaultHasher over the payload string: a 64-bit code, so distinct
\* payloads can share a code.
HashCode(json) == json % HashRange

\* extract_symbol(exchange, market_type, json): None for payload 2 (mod 3).
extract_symbol(json) ==
    IF json % 3 = 2 THEN None
    ELSE IF json < 2 THEN "s1" ELSE "s2"

\* parse_trade(exchange, market_type, json): Ok(timestamps) or Err.
ParseErr == <<-1>>
parse_trade(json) ==
    CASE json = 0 -> <<DayEndMs>>
      [] json = 1 -> <<DayStartMs, NextDayMs>>
      [] json = 3 -> ParseErr
      [] OTHER -> <<>>

\* parse_l2(exchange, market_type, json, received_at): payload 0 carries no
\* exchange timestamp, the parser falls back to received_at.
parse_l2(json, received_at) ==
    IF json = 0 THEN <<received_at>> ELSE parse_trade(json)

(* ------------------------------ lines ---------------------------------- *)
\* A capture line: valid = it deserialises as a Message.  fault: "utf8" =
\* the reader yields Err for the line (line 246), "msg_type" = its msg_type
\* is neither Trade nor L2Event (line 237).
BadLine == [valid |-> FALSE, json |-> 0, received_at |-> 0, fault |-> "none"]
CaptureLine(j, t) ==
    [valid |-> TRUE, json |-> j, received_at |-> t, fault |-> "none"]
UnreadableLine ==
    [valid |-> FALSE, json |-> 0, received_at |-> 0, fault |-> "utf8"]
OtherTypeLine(j, t) ==
    [valid |-> TRUE, json |-> j, received_at |-> t, fault |-> "msg_type"]

\* The capture lines the input files are drawn from.
LineMenu ==
    { BadLine,
      CaptureLine(0, DayStartMs), CaptureLine(0, NextDayMs),
      CaptureLine(1, DayEndMs), CaptureLine(2, DayStartMs) }
    \cup { CaptureLine(j, DayStartMs) : j \in 3..MaxJson }

\* A bucket line: a raw line is the original capture line (it has the key
\* received_at), a parsed line is a serialised ParsedRecord (key timestamp).
\* is_i64: the value under the key is a JSON integer (lines 297 and 299).
RawLine(line) ==
    [has_received_at |-> TRUE, received_at |-> line.received_at,
     has_timestamp |-> FALSE, timestamp |-> 0, json |-> line.json, idx |-> 0,
     is_i64 |-> TRUE]
ParsedLine(j, k, ts) ==
    [has_received_at |-> FALSE, received_at |-> 0,
     has_timestamp |-> TRUE, timestamp |-> ts, json |-> j, idx |-> k,
     is_i64 |-> TRUE]

\* Bucket lines no split worker writes: text that is not a JSON map with
\* one of the two keys, and a map whose received_at is not an integer.
MalformedLine ==
    [has_received_at |-> FALSE, received_at |-> 0,
     has_timestamp |-> FALSE, timestamp |-> 0, json |-> 0, idx |-> 0,
     is_i64 |-> TRUE]
NonIntegerLine ==
    [has_received_at |-> TRUE, received_at |-> 0,
     has_timestamp |-> FALSE, timestamp |-> 0, json |-> 0, idx |-> 0,
     is_i64 |-> FALSE]

SeqsUpTo(S, n) == UNION { [1..k -> S] : k \in 0..n }

(* ------------------------------ state ---------------------------------- *)
VARIABLES
    market_type,    \* M of the run
    msg_type,       \* T of the run
    pc,             \* position of the driver (process_files_of_day)
    names,          \* per input file: absent, or named for day D or D+1 hour 0
    rest,           \* per input file: the lines its reader has not yet read
    job,            \* per input file: position of its split_file pool job
    out,            \* per split job: creator of the Output it holds (0: none)
    k,              \* per split job: next parsed message of the line to write
    err,            \* per split job: error_lines
    tot,            \* per split job: total_lines
    visited,        \* the DashSet of hash codes
    split_files,    \* the DashMap symbol -> creator of its Output (0: absent)
    sink,           \* per creator and symbol: lines written to (raw, parsed)
    gz,             \* per bucket: the .json.gz file on disk
    accepted,       \* history: per payload, how often visited.insert was true
    seen,           \* history: per capture line, how often it was read
    error_lines,    \* the driver's aggregated error_lines of stage 1
    total_lines,    \* the driver's aggregated total_lines of stage 1
    paths,          \* stage 2: the bucket files to sort, smaller first
    index,          \* stage 2: 1-based position of the driver in paths
    pixz_exists,    \* stage 2: /usr/bin/pixz exists
    budget,         \* history: available memory measured at stage-2 start
    available,      \* the AtomicI64 available_memory
    reserved,       \* per bucket: what the driver subtracted for it
    sjob,           \* per bucket: position of its sort_file pool job
    use_pixz,       \* per bucket: the use_pixz argument of its job
    estimate,       \* per bucket: estimated_memory_usage of its job
    serr,           \* per bucket: error_lines of its job
    stot,           \* per bucket: total_lines of its job
    xz,             \* per bucket: the .json.xz file on disk
    json_tmp,       \* the buckets whose uncompressed .json file exists
    sort_error_lines,  \* the driver's aggregated error_lines of stage 2
    sort_total_lines,  \* the driver's aggregated total_lines of stage 2
    sizes,          \* history: per listed bucket, its size at stage-2 start
    removed         \* history: the parsed bucket files the driver removed

stage1 == <<rest, job, out, k, err, tot, visited, split_files, sink,
            accepted, seen>>
stage2 == <<paths, index, pixz_exists, budget, available, reserved, sjob,
            use_pixz, estimate, serr, stot, xz, json_tmp, sort_error_lines,
            sort_total_lines, sizes, removed>>
vars == <<market_type, msg_type, names, pc, gz, error_lines, total_lines,
          stage1, stage2>>

Buckets == Kinds \X Symbols
NoFile == [exists |-> FALSE, lines |-> <<>>]
EmptySink == [raw |-> <<>>, parsed |-> <<>>]

\* Stage-1 input: the files are numbered larger first (line 443); each is
\* shorter than the one before it, or empty.
InputFiles ==
    { f \in [Files -> SeqsUpTo(LineMenu, MaxLines)] :
        \A i \in Files : i > 1 => Len(f[i]) < Len(f[i - 1]) \/ f[i] = <<>> }

\* The names under input_dir: a file is absent, or its name carries an hour
\* of day D ("day") or hour 00 of day D+1 ("next").
InputNames(f) ==
    { n \in [Files -> {"absent", "day", "next"}] :
        /\ \A i \in Files : n[i] = "absent" => f[i] = <<>>
        /\ \A i \in Files : i > 1 /\ n[i - 1] = "absent" => n[i] = "absent" }

Init ==
    /\ market_type \in Markets \cup {BadArg}
    /\ msg_type \in MsgTypes
    /\ rest \in InputFiles
    /\ names \in InputNames(rest)
    /\ pc = "start"
    /\ job = [w \in Files |-> "none"]
    /\ out = [w \in Files |-> 0]
    /\ k = [w \in Files |-> 0]
    /\ err = [w \in Files |-> 0]
    /\ tot = [w \in Files |-> 0]
    /\ visited = {}
    /\ split_files = [s \in Symbols |-> 0]
    /\ sink = [w \in Files |-> [s \in Symbols |-> EmptySink]]
    /\ gz = [b \in Buckets |-> NoFile]
    /\ accepted = [j \in Jsons |-> 0]
    /\ seen = [l \in LineMenu |-> 0]
    /\ error_lines = 0
    /\ total_lines = 0
    /\ paths = <<>>
    /\ index = 0
    /\ pixz_exists = FALSE
    /\ budget = 0
    /\ available = 0
    /\ reserved = [b \in Buckets |-> 0]
    /\ sjob = [b \in Buckets |-> "none"]
    /\ use_pixz = [b \in Buckets |-> FALSE]
    /\ estimate = [b \in Buckets |-> 0]
    /\ serr = [b \in Buckets |-> 0]
    /\ stot = [b \in Buckets |-> 0]
    /\ xz = [b \in Buckets |-> NoFile]
    /\ json_tmp = {}
    /\ sort_error_lines = 0
    /\ sort_total_lines = 0
    /\ sizes = [b \in Buckets |-> 0]
    /\ removed = {}

(* ------------------------------ stage 1 -------------------------------- *)
RECURSIVE SumOver(_, _)
SumOver(f, S) ==
    IF S = {} THEN 0
    ELSE LET x == CHOOSE y \in S : TRUE IN f[x] + SumOver(f, S \ {x})

Running(w) == job[w] \notin {"none", "queued", "done", "panicked"}
NumRunning == Cardinality({w \in Files : Running(w)})

\* Lines 398-433: the files of day D and, when there is one, those of the
\* first hour of day D+1.
Catalog ==
    IF {w \in Files : names[w] = "day"} = {} THEN {}
    ELSE {w \in Files : names[w] \in {"day", "next"}}

\* main's argument checks (lines 644-679), then the catalog and the
\* submission loop (lines 398-480).
StartSplit ==
    /\ pc = "start"
    /\ pc' = IF market_type = BadArg THEN "bad_args"
             ELSE IF Catalog = {} THEN "no_input" ELSE "split"
    /\ job' = [w \in Files |->
                 IF market_type # BadArg /\ w \in Catalog
                 THEN "queued" ELSE "none"]
    /\ UNCHANGED <<market_type, msg_type, names, rest, out, k, err, tot, visited,
                   split_files, sink, gz, accepted, seen, error_lines,
                   total_lines, stage2>>

\* A pool thread takes the job of file w.
StartJob(w) ==
    /\ pc = "split"
    /\ job[w] = "queued"
    /\ NumRunning < NumThreads
    /\ job' = [job EXCEPT ![w] = "read"]
    /\ UNCHANGED <<market_type, msg_type, names, pc, rest, out, k, err, tot, visited,
                   split_files, sink, gz, accepted, seen, error_lines,
                   total_lines, stage2>>

Cur(w) == Head(rest[w])
Sym(w) == extract_symbol(Cur(w).json)

\* Mutant of IsNew: the result of the insertion is ignored.
IsNew_Always(json) == TRUE

\* visited.insert(hashcode): true iff the code was absent (line 126).
IsNew(json) == HashCode(json) \notin visited

\* Lines 113-129 and 239-253: read one line, count it, parse it, offer its
\* hash, extract its symbol; at end of file return the tally.
ReadLine(w) ==
    /\ job[w] = "read"
    /\ IF rest[w] = <<>>
       THEN /\ job' = [job EXCEPT ![w] = "done"]
            /\ UNCHANGED <<rest, err, tot, visited, accepted, seen>>
       ELSE LET line == Cur(w) IN
            /\ tot' = IF line.fault = "utf8" THEN tot
                      ELSE [tot EXCEPT ![w] = @ + 1]
            /\ seen' = [seen EXCEPT ![line] = @ + 1]
            /\ IF ~line.valid
               THEN /\ err' = [err EXCEPT ![w] = @ + 1]
                    /\ rest' = [rest EXCEPT ![w] = Tail(@)]
                    /\ UNCHANGED <<job, visited, accepted>>
               ELSE /\ visited' = visited \cup {HashCode(line.json)}
                    /\ IF ~IsNew(line.json)
                       THEN /\ rest' = [rest EXCEPT ![w] = Tail(@)]
                            /\ UNCHANGED <<job, err, accepted>>
                       ELSE /\ accepted' = [accepted EXCEPT ![line.json] = @ + 1]
                            /\ IF extract_symbol(line.json) = None
                               THEN /\ err' = [err EXCEPT ![w] = @ + 1]
                                    /\ rest' = [rest EXCEPT ![w] = Tail(@)]
                                    /\ UNCHANGED job
                               ELSE /\ job' = [job EXCEPT ![w] = "contains"]
                                    /\ UNCHANGED <<rest, err>>
    /\ UNCHANGED <<market_type, msg_type, names, pc, out, k, split_files, sink, gz,
                   error_lines, total_lines, stage2>>

\* Line 131: split_files.contains_key(&symbol).
ContainsKey(w) ==
    /\ job[w] = "contains"
    /\ job' = [job EXCEPT ![w] =
                 IF split_files[Sym(w)] # 0 THEN "get" ELSE "open_raw"]
    /\ UNCHANGED <<market_type, msg_type, names, pc, rest, out, k, err, tot, visited,
                   split_files, sink, gz, accepted, seen, error_lines,
                   total_lines, stage2>>

\* OpenOptions create+write+truncate: the file exists and is empty.
Truncated == [exists |-> TRUE, lines |-> <<>>]

\* Lines 132-154: create/truncate the raw bucket file, wrap it in a writer.
OpenRaw(w) ==
    /\ job[w] = "open_raw"
    /\ gz' = [gz EXCEPT ![<<"raw", Sym(w)>>] = Truncated]
    /\ job' = [job EXCEPT ![w] = "open_parsed"]
    /\ UNCHANGED <<market_type, msg_type, names, pc, rest, out, k, err, tot, visited,
                   split_files, sink, accepted, seen, error_lines,
                   total_lines, stage2>>

\* Lines 156-182: create/truncate the parsed bucket file (any market type).
OpenParsed(w) ==
    /\ job[w] = "open_parsed"
    /\ gz' = [gz EXCEPT ![<<"parsed", Sym(w)>>] = Truncated]
    /\ job' = [job EXCEPT ![w] = "insert"]
    /\ UNCHANGED <<market_type, msg_type, names, pc, rest, out, k, err, tot, visited,
                   split_files, sink, accepted, seen, error_lines,
                   total_lines, stage2>>

\* Another job than w holds a clone of the Output that c created for s.
HeldByOther(c, s, w) ==
    \E v \in Files \ {w} :
        /\ job[v] \in {"raw", "raw_nl", "parsed", "parsed_nl"}
        /\ out[v] = c
        /\ Sym(v) = s

\* Dropping the last reference of an Output finishes its two gzip streams:
\* each is written through its own descriptor from offset 0, so it replaces
\* what the bucket file held.
Finished(files, c, s) ==
    [files EXCEPT ![<<"raw", s>>].lines = sink[c][s].raw,
                  ![<<"parsed", s>>].lines = sink[c][s].parsed]

\* Lines 183-189: split_files.insert replaces the entry of the symbol; the
\* replaced Output is dropped unless a job still holds a clone of it.
Insert(w) ==
    /\ job[w] = "insert"
    /\ LET s == Sym(w)
           old == split_files[s]
       IN /\ split_files' = [split_files EXCEPT ![s] = w]
          /\ gz' = IF old # 0 /\ ~HeldByOther(old, s, w)
                   THEN Finished(gz, old, s) ELSE gz
    /\ job' = [job EXCEPT ![w] = "get"]
    /\ UNCHANGED <<market_type, msg_type, names, pc, rest, out, k, err, tot, visited,
                   sink, accepted, seen, error_lines, total_lines, stage2>>

\* Lines 191-192: split_files.get(&symbol).unwrap().value().clone().
Get(w) ==
    /\ job[w] = "get"
    /\ out' = [out EXCEPT ![w] = split_files[Sym(w)]]
    /\ job' = [job EXCEPT ![w] = "raw"]
    /\ UNCHANGED <<market_type, msg_type, names, pc, rest, k, err, tot, visited,
                   split_files, sink, gz, accepted, seen, error_lines,
                   total_lines, stage2>>

\* Mutant of OfDay: the day filter is missing.
OfDay_Any(ms) == TRUE

\* Lines 195, 209 and 226: day == get_day(ms / 1000).
OfDay(ms) == Day = get_day(ms \div MsPerSec)

\* Mutant of Locked: the sinks have no mutex.
Locked_Never(c, s, kind, w) == FALSE

\* A job other than w is inside its writeln! (lines 196, 210 and 227) to the
\* sink `kind` of the Output that c created for s: it has written the text
\* of its line and not yet the newline.
MidLine(c, s, kind, w) ==
    \E v \in Files \ {w} :
        /\ job[v] = (IF kind = "raw" THEN "raw_nl" ELSE "parsed_nl")
        /\ out[v] = c
        /\ Sym(v) = s

\* The mutex of that sink is held by another job than w: the guard lives
\* for the whole writeln! statement.
Locked(c, s, kind, w) == MidLine(c, s, kind, w)

\* The text of a line written to a sink: a line of its own, unless the
\* sink's last line still lacks its newline, which the text then extends.
Written(lines, line, open) ==
    IF open /\ lines # <<>>
    THEN SubSeq(lines, 1, Len(lines) - 1) \o <<MalformedLine>>
    ELSE Append(lines, line)

\* Lines 195-196: the raw emission: lock the raw sink and write the text of
\* the line.
WriteRaw(w) ==
    /\ job[w] = "raw"
    /\ LET line == Cur(w)
           s == Sym(w)
       IN IF OfDay(line.received_at)
          THEN /\ ~Locked(out[w], s, "raw", w)
               /\ sink' = [sink EXCEPT ![out[w]][s].raw =
                              Written(@, RawLine(line),
                                      MidLine(out[w], s, "raw", w))]
               /\ job' = [job EXCEPT ![w] = "raw_nl"]
               /\ UNCHANGED k
          ELSE /\ k' = [k EXCEPT ![w] = 1]
               /\ job' = [job EXCEPT ![w] = "parsed"]
               /\ UNCHANGED sink
    /\ UNCHANGED <<market_type, msg_type, names, pc, rest, out, err, tot, visited,
                   split_files, gz, accepted, seen, error_lines, total_lines, stage2>>

\* Line 196: the newline of the raw line; the guard is dropped.
RawNewline(w) ==
    /\ job[w] = "raw_nl"
    /\ k' = [k EXCEPT ![w] = 1]
    /\ job' = [job EXCEPT ![w] = "parsed"]
    /\ UNCHANGED <<market_type, msg_type, names, pc, rest, out, err, tot, visited,
                   split_files, sink, gz, accepted, seen, error_lines,
                   total_lines, stage2>>

\* Lines 198-238: the ParsedRecords of the line, by message type; a parser
\* error yields none.
Messages(line) ==
    LET r == IF msg_type = "L2Event"
             THEN IF ~is_blocked_market(market_type)
                  THEN parse_l2(line.json, line.received_at)
                  ELSE <<>>
             ELSE parse_trade(line.json)
    IN IF r = ParseErr THEN <<>> ELSE r

\* Lines 198-237: one parsed emission: lock the parsed sink and write the
\* text of the record; after the last one the iteration ends and its clone
\* of the Output is dropped.  A line of another msg_type panics the job at
\* line 237, which drops the clone as well.
WriteParsed(w) ==
    /\ job[w] = "parsed"
    /\ LET line == Cur(w)
           s == Sym(w)
           msgs == Messages(line)
       IN IF line.fault = "msg_type"
          THEN /\ gz' = IF split_files[s] # out[w] /\ ~HeldByOther(out[w], s, w)
                        THEN Finished(gz, out[w], s) ELSE gz
               /\ out' = [out EXCEPT ![w] = 0]
               /\ k' = [k EXCEPT ![w] = 0]
               /\ job' = [job EXCEPT ![w] = "panicked"]
               /\ UNCHANGED <<rest, sink>>
          ELSE IF k[w] <= Len(msgs)
          THEN IF OfDay(msgs[k[w]])
               THEN /\ ~Locked(out[w], s, "parsed", w)
                    /\ sink' = [sink EXCEPT ![out[w]][s].parsed =
                                   Written(@, ParsedLine(line.json, k[w], msgs[k[w]]),
                                           MidLine(out[w], s, "parsed", w))]
                    /\ job' = [job EXCEPT ![w] = "parsed_nl"]
                    /\ UNCHANGED <<rest, out, k, gz>>
               ELSE /\ k' = [k EXCEPT ![w] = @ + 1]
                    /\ UNCHANGED <<rest, out, job, gz, sink>>
          ELSE /\ gz' = IF split_files[s] # out[w] /\ ~HeldByOther(out[w], s, w)
                        THEN Finished(gz, out[w], s) ELSE gz
               /\ rest' = [rest EXCEPT ![w] = Tail(@)]
               /\ out' = [out EXCEPT ![w] = 0]
               /\ k' = [k EXCEPT ![w] = 0]
               /\ job' = [job EXCEPT ![w] = "read"]
               /\ UNCHANGED sink
    /\ UNCHANGED <<market_type, msg_type, names, pc, err, tot, visited, split_files,
                   accepted, seen, error_lines, total_lines, stage2>>

\* Lines 215 and 232: the newline of the parsed record; the guard is
\* dropped.
ParsedNewline(w) ==
    /\ job[w] = "parsed_nl"
    /\ k' = [k EXCEPT ![w] = @ + 1]
    /\ job' = [job EXCEPT ![w] = "parsed"]
    /\ UNCHANGED <<market_type, msg_type, names, pc, rest, out, err, tot, visited,
                   split_files, sink, gz, accepted, seen, error_lines,
                   total_lines, stage2>>

\* Lines 489-493: flush every sink of the router into its bucket file.
Flushed ==
    [b \in Buckets |->
        LET c == split_files[b[2]] IN
        IF c = 0 THEN gz[b]
        ELSE [exists |-> TRUE,
              lines |-> IF b[1] = "raw" THEN sink[c][b[2]].raw
                        ELSE sink[c][b[2]].parsed]]

\* Mutant of RatioExceeded: the comparison is not strict.
RatioExceeded_AtLeast(e, t) == e * 100 >= t * ErrPercent

\* Line 494-495: error_ratio > 0.01, on the aggregated tallies.
RatioExceeded(e, t) == e * 100 > t * ErrPercent

\* Mutant of PoolIdle: the driver does not wait for the pool.
PoolIdle_Always == TRUE

\* Line 481: thread_pool.join() returns when no job is queued or active; a
\* job that panicked counts as finished.
PoolIdle == \A w \in Files : job[w] \in {"none", "done", "panicked"}

\* Lines 481-511: join the pool, sum the tallies received, flush the sinks,
\* decide on the error ratio.
Join1 ==
    /\ pc = "split"
    /\ PoolIdle
    /\ LET done == {w \in Files : job[w] = "done"}
           e == SumOver(err, done)
           t == SumOver(tot, done)
       IN /\ error_lines' = e
          /\ total_lines' = t
          /\ pc' = IF RatioExceeded(e, t) THEN "ratio_failed" ELSE "sort"
    /\ gz' = Flushed
    /\ UNCHANGED <<market_type, msg_type, names, rest, job, out, k, err, tot, visited,
                   split_files, sink, accepted, seen, stage2>>

(* ------------------------------ stage 2 -------------------------------- *)
\* Mutant of Place: an item goes before the items of equal key.
Place_BeforeEqual(sorted, x) ==
    LET n == Cardinality({i \in 1..Len(sorted) : sorted[i][1] < x[1]})
    IN SubSeq(sorted, 1, n) \o <<x>> \o SubSeq(sorted, n + 1, Len(sorted))

\* sort_by_key / sort_by_cached_key on <<key, item>> pairs: stable, ascending.
Place(sorted, x) ==
    LET n == Cardinality({i \in 1..Len(sorted) : sorted[i][1] <= x[1]})
    IN SubSeq(sorted, 1, n) \o <<x>> \o SubSeq(sorted, n + 1, Len(sorted))

RECURSIVE StableSort(_)
StableSort(s) ==
    IF s = <<>> THEN <<>>
    ELSE Place(StableSort(SubSeq(s, 1, Len(s) - 1)), s[Len(s)])

Items(pairs) == [i \in 1..Len(pairs) |-> pairs[i][2]]

\* std::fs::metadata(path).len(): the size of a gzip file, in units of one
\* compressed line; the gzip header and trailer count one.
FileSize(file) == 1 + Len(file.lines)

\* Mutant of Estimate: the coefficient is missing.
Estimate_NoFactor(file) == FileSize(file)

\* Lines 281-284 and 568-571: estimated_memory_usage of a bucket file.
Estimate(file) == FileSize(file) * MemFactor

\* The memory the host may report at stage-2 start (lines 560-565).
Budgets == {(MemFactor - 1) * b : b \in 1..MaxBudget}

\* glob lists the paths in alphabetical order.
GlobOrder == <<"s1", "s2">>
Glob(files, kind) ==
    SelectSeq([i \in 1..Len(GlobOrder) |-> <<kind, GlobOrder[i]>>],
              LAMBDA b : files[b].exists)

\* Lines 537-547: the parsed bucket files of a blocked market are removed.
AfterBlocked(files) ==
    IF is_blocked_market(market_type)
    THEN [b \in Buckets |-> IF b[1] = "parsed" THEN NoFile ELSE files[b]]
    ELSE files

\* Lines 537-557: the buckets to sort, smaller files first.
SortPaths(files) ==
    LET listed == IF is_blocked_market(market_type)
                  THEN Glob(files, "raw")
                  ELSE Glob(files, "raw") \o Glob(files, "parsed")
    IN Items(StableSort([i \in 1..Len(listed) |->
                            <<FileSize(files[listed[i]]), listed[i]>>]))

\* Lines 513-565: list the buckets, fail without a raw one, drop the parsed
\* ones of a blocked market, order them, measure the available memory.  The
\* dedup set and the router were dropped at the end of the stage-1 block.
GlobSort ==
    /\ pc = "sort"
    /\ IF Glob(gz, "raw") = <<>>
       THEN /\ pc' = "no_bucket"
            /\ UNCHANGED <<gz, stage1, stage2>>
       ELSE /\ pc' = "admit"
            /\ gz' = AfterBlocked(gz)
            /\ paths' = SortPaths(gz)
            /\ index' = 1
            /\ pixz_exists' \in BOOLEAN
            /\ available' \in Budgets
            /\ budget' = available'
            /\ sizes' = [b \in Buckets |->
                            IF \E i \in 1..Len(paths') : paths'[i] = b
                            THEN FileSize(gz[b]) ELSE 0]
            /\ removed' = {b \in Buckets : gz[b].exists /\ ~gz'[b].exists}
            /\ visited' = {}
            /\ split_files' = [s \in Symbols |-> 0]
            /\ sink' = [w \in Files |-> [s \in Symbols |-> EmptySink]]
            /\ job' = [w \in Files |-> "none"]
            /\ err' = [w \in Files |-> 0]
            /\ tot' = [w \in Files |-> 0]
            /\ accepted' = [j \in Jsons |-> 0]
            /\ seen' = [l \in LineMenu |-> 0]
            /\ UNCHANGED <<rest, out, k, reserved, sjob, use_pixz, estimate,
                           serr, stot, xz, json_tmp, sort_error_lines,
                           sort_total_lines>>
    /\ UNCHANGED <<market_type, msg_type, names, error_lines, total_lines>>

\* Mutant of Admissible: the test allows four fifths of the estimate.
Admissible_FourFifths(avail, est) ==
    avail * MemFactor >= est * (MemFactor - 1)

\* Mutant of Admissible: the loop waits for a positive counter only.
Admissible_Positive(avail, est) == avail > 0

\* Line 575: the admission test of the wait loop.
Admissible(avail, est) == avail >= est

\* Lines 568-580: leave the wait loop once the counter covers the estimate.
Admit ==
    /\ pc = "admit"
    /\ index <= Len(paths)
    /\ Admissible(available, Estimate(gz[paths[index]]))
    /\ pc' = "reserve"
    /\ UNCHANGED <<market_type, msg_type, names, gz, error_lines, total_lines,
                   stage1, stage2>>

\* Line 558: percentile_90 = (len * 0.9) as usize.
Percentile90 == (Len(paths) * PixzPercent) \div 100

\* Lines 581-605: subtract the estimate, submit the sort job.
Reserve ==
    /\ pc = "reserve"
    /\ LET b == paths[index]
           e == Estimate(gz[b])
       IN /\ available' = available - e
          /\ reserved' = [reserved EXCEPT ![b] = e]
          /\ sjob' = [sjob EXCEPT ![b] = "queued"]
          /\ use_pixz' = [use_pixz EXCEPT ![b] =
                            pixz_exists /\ index - 1 >= Percentile90]
    /\ index' = index + 1
    /\ pc' = "admit"
    /\ UNCHANGED <<market_type, msg_type, names, gz, error_lines, total_lines,
                   stage1, paths, pixz_exists, budget, estimate, serr, stot,
                   xz, json_tmp, sort_error_lines, sort_total_lines,
                   sizes, removed>>

SortRunning(b) == sjob[b] \in {"running", "remove", "release"}
NumSorting == Cardinality({b \in Buckets : SortRunning(b)})

\* A pool thread takes the job of bucket b; lines 275-284.
SortStart(b) ==
    /\ sjob[b] = "queued"
    /\ NumSorting < NumThreads
    /\ sjob' = [sjob EXCEPT ![b] = "running"]
    /\ estimate' = [estimate EXCEPT ![b] = Estimate(gz[b])]
    /\ UNCHANGED <<market_type, msg_type, names, pc, gz, error_lines, total_lines,
                   stage1, paths, index, pixz_exists, budget, available,
                   reserved, use_pixz, serr, stot, xz, json_tmp, sort_error_lines, sort_total_lines,
                   sizes, removed>>

\* Lines 294-309: a bucket line is malformed unless it is a JSON map with
\* the key received_at or timestamp.
Malformed(line) == ~(line.has_received_at \/ line.has_timestamp)

\* Lines 296-300: the sort key.
Timestamp(line) ==
    IF line.has_received_at THEN line.received_at ELSE line.timestamp

\* Mutant of Sorted: the sort_by_key call is missing.
Sorted_Unsorted(lines) == lines

\* Lines 290-326: the lines of the bucket with their keys, sorted.
Sorted(lines) ==
    LET good == SelectSeq(lines, LAMBDA l : ~Malformed(l))
    IN Items(StableSort([i \in 1..Len(good) |-> <<Timestamp(good[i]), good[i]>>]))

CountMalformed(lines) == Len(SelectSeq(lines, LAMBDA l : Malformed(l)))

\* Lines 297 and 299: as_i64().unwrap() panics on a value under the key
\* that is not an integer.
NonInteger(line) == ~Malformed(line) /\ ~line.is_i64

\* Lines 286-374: read the bucket, count, and without errors write the
\* sorted lines to the output; pixz may exit non-zero, the job then panics,
\* as it does while reading on a key whose value is not an integer.
SortWrite(b) ==
    /\ sjob[b] = "running"
    /\ LET lines == gz[b].lines
           e == CountMalformed(lines)
       IN IF \E i \in 1..Len(lines) : NonInteger(lines[i])
          THEN /\ sjob' = [sjob EXCEPT ![b] = "panicked"]
               /\ UNCHANGED <<serr, stot, xz, json_tmp>>
          ELSE /\ serr' = [serr EXCEPT ![b] = e]
               /\ stot' = [stot EXCEPT ![b] = Len(lines)]
               /\ IF e # 0
                  THEN /\ sjob' = [sjob EXCEPT ![b] = "release"]
                       /\ UNCHANGED <<xz, json_tmp>>
                  ELSE IF ~use_pixz[b]
                  THEN /\ xz' = [xz EXCEPT ![b] =
                                   [exists |-> TRUE, lines |-> Sorted(lines)]]
                       /\ sjob' = [sjob EXCEPT ![b] = "remove"]
                       /\ UNCHANGED json_tmp
                  ELSE \/ /\ xz' = [xz EXCEPT ![b] =
                                      [exists |-> TRUE, lines |-> Sorted(lines)]]
                          /\ sjob' = [sjob EXCEPT ![b] = "remove"]
                          /\ UNCHANGED json_tmp
                       \/ /\ json_tmp' = json_tmp \cup {b}
                          /\ sjob' = [sjob EXCEPT ![b] = "panicked"]
                          /\ UNCHANGED xz
    /\ UNCHANGED <<market_type, msg_type, names, pc, gz, error_lines, total_lines,
                   stage1, paths, index, pixz_exists, budget, available,
                   reserved, use_pixz, estimate, sort_error_lines,
                   sort_total_lines, sizes, removed>>

\* Line 375: std::fs::remove_file(input_file).
SortRemove(b) ==
    /\ sjob[b] = "remove"
    /\ gz' = [gz EXCEPT ![b] = NoFile]
    /\ sjob' = [sjob EXCEPT ![b] = "release"]
    /\ UNCHANGED <<market_type, msg_type, names, pc, error_lines, total_lines,
                   stage1, paths, index, pixz_exists, budget, available,
                   reserved, use_pixz, estimate, serr, stot, xz, json_tmp, sort_error_lines, sort_total_lines,
                   sizes, removed>>

\* Mutant of Released: the worker gives nothing back.
Released_Nothing(b) == 0

\* Line 377: the worker adds its own estimated_memory_usage.
Released(b) == estimate[b]

\* Lines 377-378 and 598/603: give the estimate back, send the tally.
SortRelease(b) ==
    /\ sjob[b] = "release"
    /\ available' = available + Released(b)
    /\ sjob' = [sjob EXCEPT ![b] = "done"]
    /\ UNCHANGED <<market_type, msg_type, names, pc, gz, error_lines, total_lines,
                   stage1, paths, index, pixz_exists, budget, reserved,
                   use_pixz, estimate, serr, stot, xz, json_tmp, sort_error_lines, sort_total_lines,
                   sizes, removed>>

\* Lines 607-637: join the pool, sum the tallies received, decide.
Join2 ==
    /\ pc = "admit"
    /\ index > Len(paths)
    /\ \A b \in Buckets : sjob[b] \in {"none", "done", "panicked"}
    /\ LET done == {b \in Buckets : sjob[b] = "done"}
           e == SumOver(serr, done)
       IN /\ sort_error_lines' = e
          /\ sort_total_lines' = SumOver(stot, done)
          /\ pc' = IF e = 0 THEN "success" ELSE "sort_failed"
    /\ UNCHANGED <<market_type, msg_type, names, gz, error_lines, total_lines,
                   stage1, paths, index, pixz_exists, budget, available,
                   reserved, sjob, use_pixz, estimate, serr, stot, xz,
                   json_tmp, sizes, removed>>

SortJob(b) ==
    \/ SortStart(b)
    \/ SortWrite(b)
    \/ SortRemove(b)
    \/ SortRelease(b)

Split(w) ==
    \/ StartJob(w)
    \/ ReadLine(w)
    \/ ContainsKey(w)
    \/ OpenRaw(w)
    \/ OpenParsed(w)
    \/ Insert(w)
    \/ Get(w)
    \/ WriteRaw(w)
    \/ RawNewline(w)
    \/ WriteParsed(w)
    \/ ParsedNewline(w)

Next ==
    \/ StartSplit
    \/ \E w \in Files : Split(w)
    \/ Join1
    \/ GlobSort
    \/ Admit
    \/ Reserve
    \/ \E b \in Buckets : SortJob(b)
    \/ Join2

Spec == Init /\ [][Next]_vars

\* Lines 641-693: main exits 1 on a rejected argument and when
\* process_files_of_day returns false, and returns (exit code 0) when it
\* returns true.
Exited ==
    pc \in {"bad_args", "no_input", "ratio_failed", "no_bucket",
            "sort_failed", "success"}
ExitCode == IF pc = "success" THEN 0 ELSE 1

\* The steps of stage 2 (lines 566-637 and sort_file): those of the driver
\* in its admission loop and at the join, and those of the sort workers.
SortStage ==
    Admit \/ Reserve \/ (\E b \in Buckets : SortJob(b)) \/ Join2

\* The run under fair scheduling of stage 2: the driver thread and the pool
\* threads keep running, so a stage-2 step that stays possible is eventually
\* taken.
FairSpec == Init /\ [][Next]_vars /\ WF_vars(SortStage)

(* ------------------------------ one input ----------------------------- *)
\* The runs on one set of input files: a payload captured twice, in the
\* first file with received_at in day D+1 and in the second with received_at
\* in day D, and a second payload of the same symbol.
IdemInput ==
    [w \in Files |->
        IF w = 1 THEN <<CaptureLine(0, NextDayMs), CaptureLine(1, DayEndMs)>>
        ELSE IF w = 2 THEN <<CaptureLine(0, DayStartMs)>>
        ELSE <<>>]
IdemInit ==
    /\ Init
    /\ market_type \in Markets
    /\ rest = IdemInput
    /\ names = [w \in Files |-> "day"]
IdemSpec == IdemInit /\ [][Next]_vars

\* Lines 113-238 run by one worker over `lines`, with the dedup set `vis`:
\* the lines it appends to the bucket b.
RECURSIVE SplitLines(_, _, _)
SplitLines(lines, vis, b) ==
    IF lines = <<>> THEN <<>>
    ELSE LET line == Head(lines)
             new == line.valid /\ HashCode(line.json) \notin vis
             msgs == Messages(line)
             here ==
                 IF ~new \/ extract_symbol(line.json) # b[2] THEN <<>>
                 ELSE IF b[1] = "raw"
                 THEN IF OfDay(line.received_at)
                      THEN <<RawLine(line)>> ELSE <<>>
                 ELSE SelectSeq([n \in 1..Len(msgs) |->
                                    ParsedLine(line.json, n, msgs[n])],
                                LAMBDA p : OfDay(p.timestamp))
         IN here \o SplitLines(Tail(lines),
                               IF line.valid
                               THEN vis \cup {HashCode(line.json)} ELSE vis,
                               b)

\* The final bucket b of the run in which the split jobs run one after the
\* other in the order of submission.
RECURSIVE Concat(_, _)
Concat(f, w) == IF w > NumFiles THEN <<>> ELSE f[w] \o Concat(f, w + 1)
SequentialFinal(b) == Sorted(SplitLines(Concat(IdemInput, 1), {}, b))

(* --------------------------- a long input file ------------------------- *)
\* The run with a long first file, taken up where its reader (lines 113-253)
\* has read a prefix of the file: a line whose payload has no symbol (one
\* error, line 241), copies of that line (duplicates, skipped at line 128)
\* and malformed lines (one error each, line 250).  No bucket exists yet;
\* the other files, of at most one line, are still queued.
PrefixLine == CaptureLine(2, DayStartMs)
PrefixTotals == {h * 100 - o : h \in 1..MaxHundreds, o \in 0..MaxLines}
TailMenu == {BadLine, CaptureLine(0, DayStartMs), CaptureLine(1, DayEndMs)}
LongInputFiles ==
    { f \in [Files -> SeqsUpTo(TailMenu, MaxLines)] :
        \A i \in Files : i > 1 => Len(f[i]) <= 1 }

RatioInit ==
    /\ market_type \in Markets
    /\ msg_type \in MsgTypes
    /\ rest \in LongInputFiles
    /\ names = [w \in Files |-> "day"]
    /\ pc = "split"
    /\ job = [w \in Files |-> IF w = 1 THEN "read" ELSE "queued"]
    /\ out = [w \in Files |-> 0]
    /\ k = [w \in Files |-> 0]
    /\ \E t \in PrefixTotals, bad \in 0..MaxBad :
          /\ tot = [w \in Files |-> IF w = 1 THEN t ELSE 0]
          /\ err = [w \in Files |-> IF w = 1 THEN 1 + bad ELSE 0]
          /\ seen = [l \in LineMenu |->
                        IF l = PrefixLine THEN t - bad
                        ELSE IF l = BadLine THEN bad ELSE 0]
    /\ visited = {HashCode(PrefixLine.json)}
    /\ accepted = [j \in Jsons |-> IF j = PrefixLine.json THEN 1 ELSE 0]
    /\ split_files = [s \in Symbols |-> 0]
    /\ sink = [w \in Files |-> [s \in Symbols |-> EmptySink]]
    /\ gz = [b \in Buckets |-> NoFile]
    /\ error_lines = 0
    /\ total_lines = 0
    /\ paths = <<>>
    /\ index = 0
    /\ pixz_exists = FALSE
    /\ budget = 0
    /\ available = 0
    /\ reserved = [b \in Buckets |-> 0]
    /\ sjob = [b \in Buckets |-> "none"]
    /\ use_pixz = [b \in Buckets |-> FALSE]
    /\ estimate = [b \in Buckets |-> 0]
    /\ serr = [b \in Buckets |-> 0]
    /\ stot = [b \in Buckets |-> 0]
    /\ xz = [b \in Buckets |-> NoFile]
    /\ json_tmp = {}
    /\ sort_error_lines = 0
    /\ sort_total_lines = 0
    /\ sizes = [b \in Buckets |-> 0]
    /\ removed = {}

RatioNext ==
    \/ \E w \in Files : Split(w)
    \/ Join1
    \/ GlobSort
    \/ Admit
    \/ Reserve
    \/ \E b \in Buckets : SortJob(b)
    \/ Join2

RatioSpec == RatioInit /\ [][RatioNext]_vars

(* ----------------------- damaged inputs and outputs -------------------- *)
\* The run on an input file that holds lines the reader cannot decode or
\* lines of another msg_type, with bucket files of the same exchange,
\* market type, message type and day already in the output directories:
\* stage 1 truncates those of the symbols it routes (lines 141-149, 168-176)
\* and stage 2 lists whatever matches its patterns (lines 515-535).
FaultMenu ==
    { UnreadableLine, OtherTypeLine(0, DayStartMs),
      CaptureLine(0, DayStartMs), CaptureLine(1, DayEndMs) }
FaultInputFiles ==
    { f \in [Files -> SeqsUpTo(FaultMenu, MaxLines)] :
        \A i \in Files : i > 1 => f[i] = <<>> }
StaleMenu == {MalformedLine, NonIntegerLine, RawLine(CaptureLine(3, DayStartMs))}
StaleFiles ==
    { g \in [Buckets -> {NoFile} \cup
                        {[exists |-> TRUE, lines |-> l] :
                            l \in SeqsUpTo(StaleMenu, MaxStale)}] :
        /\ \A s \in Symbols : g[<<"parsed", s>>] = NoFile
        /\ g[<<"raw", "s1">>] \in {NoFile, [exists |-> TRUE, lines |-> <<MalformedLine>>]} }

FaultInit ==
    /\ market_type \in Markets
    /\ msg_type \in MsgTypes
    /\ rest \in FaultInputFiles
    /\ names = [w \in Files |-> "day"]
    /\ pc = "start"
    /\ job = [w \in Files |-> "none"]
    /\ out = [w \in Files |-> 0]
    /\ k = [w \in Files |-> 0]
    /\ err = [w \in Files |-> 0]
    /\ tot = [w \in Files |-> 0]
    /\ visited = {}
    /\ split_files = [s \in Symbols |-> 0]
    /\ sink = [w \in Files |-> [s \in Symbols |-> EmptySink]]
    /\ gz \in StaleFiles
    /\ accepted = [j \in Jsons |-> 0]
    /\ seen = [l \in LineMenu \cup FaultMenu |-> 0]
    /\ error_lines = 0
    /\ total_lines = 0
    /\ paths = <<>>
    /\ index = 0
    /\ pixz_exists = FALSE
    /\ budget = 0
    /\ available = 0
    /\ reserved = [b \in Buckets |-> 0]
    /\ sjob = [b \in Buckets |-> "none"]
    /\ use_pixz = [b \in Buckets |-> FALSE]
    /\ estimate = [b \in Buckets |-> 0]
    /\ serr = [b \in Buckets |-> 0]
    /\ stot = [b \in Buckets |-> 0]
    /\ xz = [b \in Buckets |-> NoFile]
    /\ json_tmp = {}
    /\ sort_error_lines = 0
    /\ sort_total_lines = 0
    /\ sizes = [b \in Buckets |-> 0]
    /\ removed = {}

FaultSpec == FaultInit /\ [][Next]_vars

(* ============================== claims ================================= *)
\* Stage 1 is over: the pool was joined and the sinks were flushed; the
\* stage-1 structures are still in place.
SplitOver == pc \in {"sort", "ratio_failed", "no_bucket"}

\* Payload j occurred in a line that was read and parsed.
Offered(j) == \E l \in LineMenu : l.valid /\ l.json = j /\ seen[l] > 0

\* How many insertions of hash code h returned true.
AcceptedCode(h) ==
    SumOver(accepted, {j \in Jsons : HashCode(j) = h})

\* How many raw lines of payload j were appended to sinks.
RawAppends(j) ==
    Cardinality({x \in Files \X Symbols \X (1..(NumFiles * MaxLines)) :
                   /\ x[3] <= Len(sink[x[1]][x[2]].raw)
                   /\ sink[x[1]][x[2]].raw[x[3]].json = j})

\* How many times the n-th parsed record of payload j was appended to sinks.
ParsedAppends(j, n) ==
    Cardinality({x \in Files \X Symbols \X (1..(2 * NumFiles * MaxLines)) :
                   /\ x[3] <= Len(sink[x[1]][x[2]].parsed)
                   /\ sink[x[1]][x[2]].parsed[x[3]].json = j
                   /\ sink[x[1]][x[2]].parsed[x[3]].idx = n})

\* C1 (as claimed): after stage 1 every distinct payload that was offered
\* has been accepted by the dedup index exactly once.
C1_Original ==
    SplitOver => \A j \in Jsons : Offered(j) => accepted[j] = 1

\* C1 (amended): every hash code is accepted at most once, and exactly once
\* when stage 1 is over and some payload with that code was offered; hence
\* every payload is accepted by at most one worker, its line is appended to
\* raw sinks at most once and each record of its expansion to parsed sinks
\* at most once.
C1_DedupOnce ==
    /\ \A h \in 0..(HashRange - 1) :
          /\ AcceptedCode(h) <= 1
          /\ (h \in visited) <=> (AcceptedCode(h) = 1)
    /\ SplitOver =>
          \A j \in Jsons : Offered(j) => AcceptedCode(HashCode(j)) = 1
    /\ \A j \in Jsons :
          /\ accepted[j] <= 1
          /\ RawAppends(j) <= accepted[j]
          /\ \A n \in 1..2 : ParsedAppends(j, n) <= accepted[j]

\* C1 witness: a line was read twice, its payload was accepted once and its
\* raw line and parsed record were appended once.
C1_Witness ==
    /\ SplitOver
    /\ \E l \in LineMenu :
          /\ l.valid /\ seen[l] = 2
          /\ accepted[l.json] = 1
          /\ RawAppends(l.json) = 1
          /\ ParsedAppends(l.json, 1) = 1


\* The in-day test the claims use: a millisecond timestamp inside day D.
InDayMs(ms) == DayStartMs <= ms /\ ms <= DayEndMs

Count(seq, x) == Cardinality({i \in 1..Len(seq) : seq[i] = x})

\* No other line that was read carries a payload with the hash code of l's.
Alone(l) ==
    \A l2 \in LineMenu :
        (l2.valid /\ seen[l2] > 0 /\ HashCode(l2.json) = HashCode(l.json))
            => l2 = l

\* C2: a capture line inside day D with an extractable symbol that occurs
\* N >= 1 times in the input is, after stage 1, exactly once in the raw
\* bucket of its symbol, and each in-day record of its expansion exactly once
\* in the parsed bucket.  Stated for the lines whose hash code no other line
\* of the input shares, a case of the claim.
C2_ExactlyOnce ==
    SplitOver =>
        \A l \in LineMenu :
            (/\ l.valid /\ seen[l] >= 1 /\ Alone(l)
             /\ InDayMs(l.received_at)
             /\ extract_symbol(l.json) # None)
            => LET s == extract_symbol(l.json)
                   msgs == Messages(l)
               IN /\ Count(gz[<<"raw", s>>].lines, RawLine(l)) = 1
                  /\ \A n \in 1..Len(msgs) :
                        InDayMs(msgs[n]) =>
                            Count(gz[<<"parsed", s>>].lines,
                                  ParsedLine(l.json, n, msgs[n])) = 1


\* The lines of every bucket file and of every sink.
BucketLines(kind) ==
    UNION { {gz[<<kind, s>>].lines[i] : i \in 1..Len(gz[<<kind, s>>].lines)}
            \cup {xz[<<kind, s>>].lines[i] : i \in 1..Len(xz[<<kind, s>>].lines)}
            : s \in Symbols }
    \cup UNION { IF kind = "raw"
                 THEN {sink[w][s].raw[i] : i \in 1..Len(sink[w][s].raw)}
                 ELSE {sink[w][s].parsed[i] : i \in 1..Len(sink[w][s].parsed)}
                 : w \in Files, s \in Symbols }

\* The capture lines that count as errors: unparseable, or without symbol.
ErrorLine(l) == ~l.valid \/ extract_symbol(l.json) = None

\* C3: every line of a raw bucket has received_at inside day D and every
\* line of a parsed bucket has timestamp inside day D, in every state of
\* both stages; error_lines counts no line other than an unparseable or a
\* symbol-less one, so a record outside D is dropped without counting.
C3_DayFilter ==
    /\ \A l \in BucketLines("raw") :
          l.has_received_at /\ InDayMs(l.received_at)
    /\ \A l \in BucketLines("parsed") :
          l.has_timestamp /\ InDayMs(l.timestamp)
    /\ SumOver(err, Files)
          <= SumOver(seen, {l \in LineMenu : ErrorLine(l)})

\* C3 witness: stage 1 is over, a line with received_at outside D and a
\* line whose expansion has a record outside D were read and are in no
\* bucket, a raw and a parsed bucket hold lines, and no error was counted.
C3_Witness ==
    /\ SplitOver
    /\ seen[CaptureLine(0, NextDayMs)] > 0
    /\ seen[CaptureLine(1, DayEndMs)] > 0
    /\ msg_type = "Trade"
    /\ gz[<<"raw", "s1">>].lines # <<>>
    /\ gz[<<"parsed", "s1">>].lines # <<>>
    /\ SumOver(err, Files) = 0


\* Stage 2 is over: the pool was joined and the run decided.
SortOver == pc \in {"success", "sort_failed"}

\* The sort key as the claims state it.
KeyOf(l) == IF l.has_received_at THEN l.received_at ELSE l.timestamp

NonDecreasing(lines) ==
    \A i \in 1..Len(lines) : \A j \in 1..Len(lines) :
        i < j => KeyOf(lines[i]) <= KeyOf(lines[j])

\* C4: every final .json.xz bucket is non-decreasing by timestamp (the key
\* is received_at when the line has it, otherwise timestamp), and after
\* stage 2 the .json.gz of every bucket that has a final file is deleted.
C4_SortedFinal ==
    /\ \A b \in Buckets : xz[b].exists => NonDecreasing(xz[b].lines)
    /\ SortOver => \A b \in Buckets : xz[b].exists => ~gz[b].exists

\* C4 witness: stage 2 is over and a final raw bucket and a final parsed
\* bucket each hold two lines with different keys.
C4_Witness ==
    /\ SortOver
    /\ \E s \in Symbols, t \in Symbols :
          /\ Len(xz[<<"raw", s>>].lines) >= 2
          /\ KeyOf(xz[<<"raw", s>>].lines[1]) < KeyOf(xz[<<"raw", s>>].lines[2])
          /\ Len(xz[<<"parsed", t>>].lines) >= 2
          /\ KeyOf(xz[<<"parsed", t>>].lines[1])
                < KeyOf(xz[<<"parsed", t>>].lines[2])


\* C5: whenever the run reports success, no .json.gz bucket remains.
C5_NoGzOnSuccess ==
    pc = "success" => \A b \in Buckets : ~gz[b].exists


\* The buckets whose reservation was subtracted and not yet given back.
Unreleased == {b \in Buckets : sjob[b] \notin {"none", "done"}}
Outstanding == SumOver(reserved, Unreleased)

\* C6: in every state the admission counter is >= 0, i.e. the outstanding
\* reservations never exceed the memory measured at stage-2 start.
C6_AvailableNonNegative ==
    /\ available >= 0
    /\ Outstanding <= budget

\* C6 witness: the driver waits in the admission loop for a bucket the
\* budget could hold, because of the reservations of running workers.
C6_Witness ==
    /\ pc = "admit"
    /\ index <= Len(paths)
    /\ Outstanding > 0
    /\ \A b \in Unreleased : sjob[b] # "panicked"
    /\ available < MemFactor * sizes[paths[index]]
    /\ MemFactor * sizes[paths[index]] <= budget


\* The smallest bucket size of the stage.
MinSize ==
    CHOOSE m \in {sizes[paths[i]] : i \in 1..Len(paths)} :
        \A i \in 1..Len(paths) : m <= sizes[paths[i]]

\* C7: at every moment of stage 2 at most floor(B / (5 * min_size)) sort
\* workers are running, B the initial budget, min_size the smallest bucket.
C7_ConcurrencyBound ==
    paths # <<>> => NumSorting <= budget \div (MemFactor * MinSize)

\* C7 witness: two sort workers run at once and that is the bound.
C7_Witness ==
    /\ paths # <<>>
    /\ NumSorting = 2
    /\ budget \div (MemFactor * MinSize) = 2


\* The largest bucket size of the stage.
Largest ==
    CHOOSE m \in {sizes[paths[i]] : i \in 1..Len(paths)} :
        \A i \in 1..Len(paths) : m >= sizes[paths[i]]

\* C8 (as claimed): with the budget at 4 x the largest bucket size stage 2
\* still completes: as long as no worker has panicked, the stage is over or
\* some step of the driver or of a worker is possible.
C8_Original ==
    (/\ paths # <<>>
     /\ budget = (MemFactor - 1) * Largest
     /\ \A b \in Buckets : sjob[b] # "panicked")
    => (SortOver \/ ENABLED Next)

\* C8 (amended): a bucket whose estimate 5 x size exceeds the initial budget
\* is never submitted and stage 2 is never over; so with the budget at
\* 4 x the largest bucket size the largest bucket's worker never starts,
\* also after every smaller one has released.
C8_NeverAdmitted ==
    \A i \in 1..Len(paths) :
        MemFactor * sizes[paths[i]] > budget
            => sjob[paths[i]] = "none" /\ ~SortOver

\* C8 witness: the budget is 4 x the largest size, every smaller bucket has
\* been sorted and has released, and the driver waits for the largest.
C8_Witness ==
    /\ Len(paths) >= 2
    /\ budget = (MemFactor - 1) * Largest
    /\ pc = "admit"
    /\ index = Len(paths)
    /\ sizes[paths[index]] = Largest
    /\ \A i \in 1..(index - 1) : sjob[paths[i]] = "done"
    /\ available = budget


\* Some parsed bucket has a file, or a line written to its sink.
ParsedWritten ==
    \/ \E c \in Files, s \in Symbols : sink[c][s].parsed # <<>>
    \/ \E s \in Symbols : gz[<<"parsed", s>>].exists

\* The parsed output tree holds no file.
ParsedTreeEmpty ==
    \A s \in Symbols :
        /\ ~gz[<<"parsed", s>>].exists
        /\ ~xz[<<"parsed", s>>].exists
        /\ <<"parsed", s>> \notin json_tmp

SortSubmitted == \E b \in Buckets : sjob[b] # "none"

\* C9 (as claimed): for a blocked market type and any message type, stage 1
\* never writes a parsed bucket, no parsed bucket file exists once a sort
\* worker is submitted, and after stage 2 the parsed tree is empty.
C9_Original ==
    market_type \in BlockedMarkets =>
        /\ pc \in {"start", "split"} => ~ParsedWritten
        /\ SortSubmitted \/ SortOver => ParsedTreeEmpty

\* C9 (amended): for a blocked market type stage 1 appends no parsed line
\* when the message type is L2Event (for Trade it may); whatever parsed
\* bucket files exist at the end of stage 1 are gone before the first sort
\* worker is submitted, no parsed bucket is ever listed or sorted, the parsed
\* tree is empty after stage 2, and every raw bucket was submitted, its
\* sorted file existing when its worker completed.
C9_BlockedParsed ==
    market_type \in BlockedMarkets =>
        /\ msg_type = "L2Event" =>
               \A s \in Symbols :
                   /\ \A c \in Files : sink[c][s].parsed = <<>>
                   /\ gz[<<"parsed", s>>].lines = <<>>
        /\ \A s \in Symbols : sjob[<<"parsed", s>>] = "none"
        /\ SortSubmitted \/ SortOver => ParsedTreeEmpty
        /\ SortOver =>
               \A s \in Symbols :
                   LET b == <<"raw", s>> IN
                   sizes[b] > 0 =>
                       /\ sjob[b] \in {"done", "panicked"}
                       /\ sjob[b] = "done" => xz[b].exists /\ ~gz[b].exists

\* C9 witness: a blocked market's Trade run is over, parsed bucket files
\* were removed before the sorting and a raw bucket has been sorted.
C9_Witness ==
    /\ market_type \in BlockedMarkets
    /\ msg_type = "Trade"
    /\ pc = "success"
    /\ \E s \in Symbols : <<"parsed", s>> \in removed
    /\ \E s \in Symbols : xz[<<"raw", s>>].exists /\ xz[<<"raw", s>>].lines # <<>>
    /\ ParsedTreeEmpty


\* The split pool was joined and the error ratio was computed.
Joined == pc \notin {"start", "split", "bad_args", "no_input"}

\* C10 (as claimed): once the driver has moved on from the join, the run has
\* failed without submitting a sort worker if and only if the aggregated
\* tallies give a ratio strictly above 1%.
C10_Original ==
    Joined /\ pc # "sort" =>
        (pc \in {"ratio_failed", "no_bucket"} /\ ~SortSubmitted
            <=> error_lines * 100 > total_lines)

\* C10 (amended): the aggregated tallies are the sums of the tallies the
\* split workers returned; the run fails at the join, before any bucket is
\* listed, if and only if the ratio is strictly above 1%; at exactly 1% or
\* below stage 2 is attempted, where the run can still fail without a sort
\* worker when there is no raw bucket.
C10_RatioGate ==
    Joined =>
        /\ pc = "ratio_failed" <=> error_lines * 100 > total_lines
        /\ pc = "ratio_failed" => ~SortSubmitted /\ paths = <<>>
        /\ pc = "no_bucket" => ~SortSubmitted /\ \A s \in Symbols : ~gz[<<"raw", s>>].exists
        /\ SplitOver =>
               /\ error_lines = SumOver(err, {w \in Files : job[w] = "done"})
               /\ total_lines = SumOver(tot, {w \in Files : job[w] = "done"})

\* C10 witness: the ratio is exactly 1% and a sort worker has been
\* submitted.
C10_Witness ==
    /\ total_lines > 0
    /\ error_lines * 100 = total_lines
    /\ SortSubmitted


\* A sort worker met an error: it panicked, or it counted a malformed line.
SortWorkerFailed(b) ==
    sjob[b] = "panicked" \/ (sjob[b] = "done" /\ serr[b] > 0)

\* C11: the process exits 0 if and only if the arguments were accepted,
\* stage 1 found input, its error ratio did not exceed 1%, stage 2 found a
\* raw bucket and no sort worker met an error; otherwise it exits 1.
C11_ExitCode ==
    Exited =>
        (ExitCode = 0 <=>
            /\ market_type # BadArg
            /\ Catalog # {}
            /\ ~(error_lines * 100 > total_lines)
            /\ \E i \in 1..Len(paths) : paths[i][1] = "raw"
            /\ \A b \in Buckets : ~SortWorkerFailed(b))


\* Stage 2 has begun: the driver has listed the bucket files.
SortBegun == pc \in {"admit", "reserve", "success", "sort_failed"}

\* C12: the stages are sequential.  Until the split pool has been joined
\* nothing of stage 2 has happened (no bucket listed, removed, reserved or
\* sorted); once the driver is past the join no split job is queued or
\* running and every bucket file holds what its sink of the router held;
\* after stage 2 has begun a listed bucket file keeps the size it was
\* listed with until its sort worker removes it.
C12_Sequential ==
    /\ pc \in {"start", "split"} =>
           /\ paths = <<>>
           /\ removed = {}
           /\ ~SortSubmitted
           /\ \A b \in Buckets : reserved[b] = 0 /\ ~xz[b].exists
    /\ pc \notin {"start", "split"} =>
           \A w \in Files : job[w] \in {"none", "done", "panicked"}
    /\ SplitOver => gz = Flushed
    /\ SortBegun =>
           \A i \in 1..Len(paths) :
               gz[paths[i]].exists => FileSize(gz[paths[i]]) = sizes[paths[i]]

\* C12 witness: both split workers have returned, their lines are in the
\* bucket files, and the driver is about to list them.
C12_Witness ==
    /\ pc = "sort"
    /\ \A w \in Files : job[w] = "done" /\ tot[w] > 0
    /\ \E b \in Buckets : gz[b].lines # <<>>


\* C13: after a sort worker has panicked the driver never reports success.
C13_PanicFails ==
    (\E b \in Buckets : sjob[b] = "panicked") => pc # "success"

\* C14: all split jobs that write for a symbol hold the Output of the same
\* creator, the one the router maps the symbol to, and a bucket file is not
\* truncated again once a job writes to it.
C14_OneOutput ==
    \A w \in Files :
        job[w] \in {"raw", "raw_nl", "parsed", "parsed_nl"} =>
            /\ out[w] = split_files[Sym(w)]
            /\ \A v \in Files \ {w} :
                   job[v] \in {"open_raw", "open_parsed", "insert"}
                       => Sym(v) # Sym(w)


\* The whole lines a split worker can write.
WholeLines ==
    {RawLine(l) : l \in LineMenu}
    \cup {ParsedLine(j, n, ts) : j \in Jsons, n \in 1..2,
                                ts \in {DayStartMs, DayEndMs, NextDayMs}}

C16_ReleaseMatches ==
    /\ \A b \in Buckets :
           sjob[b] \in {"release", "done"} => Released(b) = reserved[b]
    /\ SortOver => available = budget


\* C17: when the memory measured at stage-2 start is at least 5 x the
\* largest bucket size, then unless a worker panics every listed bucket is
\* eventually admitted and sorted or aborted, and stage 2 terminates.
C17_Terminates ==
    (pc = "admit" /\ budget >= MemFactor * Largest)
        ~> \/ SortOver /\ \A i \in 1..Len(paths) : sjob[paths[i]] = "done"
           \/ \E b \in Buckets : sjob[b] = "panicked"

\* C17 witness: stage 2 is over with every bucket sorted, on a budget that
\* covers the largest bucket but not all the buckets at once.
C17_Witness ==
    /\ SortOver
    /\ Len(paths) >= 2
    /\ budget >= MemFactor * Largest
    /\ budget < SumOver([b \in Buckets |-> MemFactor * sizes[b]], Buckets)
    /\ \A i \in 1..Len(paths) : sjob[paths[i]] = "done"


\* A bucket the driver listed for sorting, and one whose file holds a
\* malformed line.
Listed(b) == \E i \in 1..Len(paths) : paths[i] = b
HasMalformed(b) == gz[b].exists /\ CountMalformed(gz[b].lines) > 0

\* C18: in stage 2 no step changes the .json.gz of a listed bucket with a
\* malformed line or creates an output for it; once the stage is over, if
\* there was such a bucket the run has failed, the worker of each such
\* bucket has returned (its reservation released) and every other listed
\* bucket is sorted.
C18_AbortOnly ==
    /\ [][\A b \in Buckets :
              SortBegun /\ Listed(b) /\ HasMalformed(b) =>
                  /\ gz'[b] = gz[b]
                  /\ xz'[b] = xz[b]
                  /\ (b \in json_tmp') = (b \in json_tmp)]_vars
    /\ [](SortOver /\ (\E b \in Buckets : Listed(b) /\ HasMalformed(b)) =>
              /\ pc = "sort_failed"
              /\ \A b \in Buckets :
                     Listed(b) =>
                         IF HasMalformed(b)
                         THEN sjob[b] = "done" /\ ~xz[b].exists
                         ELSE xz[b].exists /\ ~gz[b].exists)


\* `output` is a stable ascending sort of `input`: a rearrangement of its
\* lines, non-decreasing in the key, in which lines of equal key keep their
\* input order.
StableSortOf(output, input) ==
    /\ Len(output) = Len(input)
    /\ \E p \in [1..Len(input) -> 1..Len(input)] :
           /\ \A i \in 1..Len(input) : \A j \in 1..Len(input) :
                  i # j => p[i] # p[j]
           /\ \A i \in 1..Len(input) : output[i] = input[p[i]]
           /\ \A i \in 1..Len(input) : \A j \in 1..Len(input) :
                  i < j =>
                      \/ KeyOf(input[p[i]]) < KeyOf(input[p[j]])
                      \/ KeyOf(input[p[i]]) = KeyOf(input[p[j]]) /\ p[i] < p[j]

\* C19: when a sort worker has written its output and not yet removed its
\* input, the .json.xz is a stable ascending sort of the .json.gz.
C19_StableSort ==
    \A b \in Buckets :
        sjob[b] = "remove" => StableSortOf(xz[b].lines, gz[b].lines)

\* C19 witness: such a worker, on an input that holds two different lines
\* of equal key.
C19_Witness ==
    \E b \in Buckets :
        /\ sjob[b] = "remove"
        /\ \E i \in 1..Len(gz[b].lines) : \E j \in 1..Len(gz[b].lines) :
               /\ i < j
               /\ KeyOf(gz[b].lines[i]) = KeyOf(gz[b].lines[j])
               /\ gz[b].lines[i] # gz[b].lines[j]


\* C20: the split workers have incremented total_lines once for every line
\* read, and error_lines once for every line that did not parse as a capture
\* record and once for every first-seen payload without a symbol, and for
\* nothing else; each worker's pair has 0 <= error_lines <= total_lines.
C20_Tallies ==
    /\ SumOver(tot, Files) = SumOver(seen, DOMAIN seen)
    /\ SumOver(err, Files) =
           SumOver(seen, {l \in DOMAIN seen : ~l.valid})
           + SumOver(accepted, {j \in Jsons : extract_symbol(j) = None})
    /\ \A w \in Files : 0 <= err[w] /\ err[w] <= tot[w]


\* The union of the two patterns of the catalog: the capture files of day D
\* and those of the first hour of day D+1.
CatalogUnion == {w \in Files : names[w] \in {"day", "next"}}

\* C21: once the arguments are accepted and the catalog is taken, the run
\* has failed for want of input exactly when the union of the day-D files
\* and the first-hour-of-D+1 files is empty, it has then created no bucket,
\* and when the union is not empty every file of it was submitted to a split
\* worker.
C21_NoInput ==
    pc \in {"no_input", "split"} =>
        /\ pc = "no_input" <=> CatalogUnion = {}
        /\ pc = "no_input" => \A b \in Buckets : ~gz[b].exists
        /\ \A w \in CatalogUnion : job[w] # "none"


\* Something was written to bucket b in stage 1: a sink of its symbol holds
\* a line of its kind, or its file does.
Appended(b) ==
    \/ gz[b].lines # <<>>
    \/ \E c \in Files :
           IF b[1] = "raw" THEN sink[c][b[2]].raw # <<>>
           ELSE sink[c][b[2]].parsed # <<>>

\* The two terminal states of a bucket, read from the files.
IsFinal(b) == xz[b].exists /\ ~gz[b].exists
IsStuck(b) ==
    /\ gz[b].exists /\ FileSize(gz[b]) = sizes[b]
    /\ ~xz[b].exists /\ b \notin json_tmp

\* The state of a bucket in its lifecycle.
Phase(b) ==
    IF ~SortBegun
    THEN IF ~gz[b].exists THEN "absent"
         ELSE IF pc # "split" THEN "flushed"
         ELSE IF Appended(b) THEN "appending" ELSE "open"
    ELSE IF IsFinal(b) THEN "final"
         ELSE IF ~gz[b].exists THEN "absent"
         ELSE IF sjob[b] = "none" THEN "flushed"
         ELSE IF sjob[b] = "done" THEN "stuck"
         ELSE "sorting"

\* The moves of the lifecycle: forward along absent, open, appending,
\* flushed, sorting, and from sorting to final or to stuck.
PhaseRank(p) ==
    CASE p = "absent" -> 0 [] p = "open" -> 1 [] p = "appending" -> 2
      [] p = "flushed" -> 3 [] p = "sorting" -> 4 [] OTHER -> 5
PhaseMove(p, q) ==
    \/ p = q
    \/ q \in {"final", "stuck"} /\ p = "sorting"
    \/ q \notin {"final", "stuck"} /\ PhaseRank(p) < PhaseRank(q)

\* C22: every step moves every bucket along its lifecycle, and when stage 2
\* has joined its workers every listed bucket is final (output exists,
\* .json.gz gone) or stuck (.json.gz present and unchanged, no output
\* written), and not both.
C22_Lifecycle ==
    /\ [][\A b \in Buckets : PhaseMove(Phase(b), Phase(b)')]_vars
    /\ [](SortOver =>
              \A b \in Buckets : Listed(b) => (IsFinal(b) # IsStuck(b)))


\* C23: for the fixed input of IdemSpec, every final bucket holds the line
\* sequence that the run with the split jobs one after the other produces,
\* whatever the interleaving of the split workers.
C23_Idempotent ==
    \A b \in Buckets : xz[b].exists => xz[b].lines = SequentialFinal(b)


\* Capture line l was read, lies inside day D, has a symbol, and its payload
\* was also read in a line with another received_at.
InDayCopy(l) ==
    /\ l.valid /\ seen[l] > 0
    /\ InDayMs(l.received_at)
    /\ extract_symbol(l.json) # None
    /\ \E l2 \in LineMenu :
           /\ l2.valid /\ seen[l2] > 0
           /\ l2.json = l.json /\ l2.received_at # l.received_at

\* C24: after stage 1, a payload that was read in several lines with
\* different received_at, one of them inside day D, has a line in the raw
\* bucket of its symbol.
C24_InDayCopyKept ==
    SplitOver =>
        \A l \in LineMenu :
            InDayCopy(l) =>
                LET lines == gz[<<"raw", extract_symbol(l.json)>>].lines
                IN \E i \in 1..Len(lines) : lines[i].json = l.json


\* The buckets submitted to a sort worker.
ListedBuckets == {b \in Buckets : Listed(b)}

\* C25: after the join of stage 1 every submitted split job has returned
\* its tally and the driver's totals are the sums over the submitted files;
\* after the join of stage 2 the same holds for the listed buckets.
C25_AllTallies ==
    /\ SplitOver =>
           /\ \A w \in Catalog : job[w] = "done"
           /\ error_lines = SumOver(err, Catalog)
           /\ total_lines = SumOver(tot, Catalog)
    /\ SortOver =>
           /\ \A b \in ListedBuckets : sjob[b] = "done"
           /\ sort_error_lines = SumOver(serr, ListedBuckets)
           /\ sort_total_lines = SumOver(stot, ListedBuckets)

====
